---- MODULE Spec2Model ----
(***************************************************************************)
(* Length-indicated record store and primary-key index of the Buffer class *)
(* (buffer.h, buffer.cpp) and the lookup driver searchZipCode (main.cpp).  *)
(*                                                                         *)
(* Files are sequences of bytes (integers 0..255); text is the sequence of *)
(* its ASCII codes.  A double is the exact decimal (-1)^neg * m * 10^e     *)
(* with m not divisible by 10; this is what a double holds for every       *)
(* decimal of at most 15 significant digits, and every value of the model  *)
(* is a decimal of at most seven significant digits.                       *)
(***************************************************************************)
EXTENDS Integers, Sequences, FiniteSets, TLC

(***************************************************************************)
(* Characters                                                              *)
(***************************************************************************)
NUL == 0
NL == 10
SP == 32
PLUS == 43
COMMA == 44
MINUS == 45
DOT == 46
ZERO == 48
UPPER_E == 69
LOWER_E == 101

\* isspace() in the "C" locale: space, \t \n \v \f \r
IsSpace(c) == c = SP \/ (c >= 9 /\ c <= 13)

IsDigit(c) == c >= ZERO /\ c <= ZERO + 9

Min(a, b) == IF a < b THEN a ELSE b

RECURSIVE Pow10(_)
Pow10(n) == IF n <= 0 THEN 1 ELSE 10 * Pow10(n - 1)

RECURSIVE NumDigits(_)
NumDigits(n) == IF n < 10 THEN 1 ELSE 1 + NumDigits(n \div 10)

RECURSIVE Zeros(_)
Zeros(n) == IF n <= 0 THEN <<>> ELSE <<NUL>> \o Zeros(n - 1)

RECURSIVE ZeroDigits(_)
ZeroDigits(n) == IF n <= 0 THEN <<>> ELSE <<ZERO>> \o ZeroDigits(n - 1)

\* first position >= i of s that holds no white space
RECURSIVE SkipSpace(_, _)
SkipSpace(s, i) ==
    IF i <= Len(s) /\ IsSpace(s[i]) THEN SkipSpace(s, i + 1) ELSE i

\* first position >= i of s that holds no decimal digit
RECURSIVE DigitsEnd(_, _)
DigitsEnd(s, i) ==
    IF i <= Len(s) /\ IsDigit(s[i]) THEN DigitsEnd(s, i + 1) ELSE i

\* value of the decimal digits s[from .. to-1]
RECURSIVE DigitsVal(_, _, _)
DigitsVal(s, from, to) ==
    IF to <= from THEN 0
    ELSE 10 * DigitsVal(s, from, to - 1) + (s[to - 1] - ZERO)

CharAt(s, i) == IF i >= 1 /\ i <= Len(s) THEN s[i] ELSE NUL

(***************************************************************************)
(* double                                                                  *)
(***************************************************************************)
DBL_MAX_10_EXP == 308
DBL_MIN_10_EXP == -324

RECURSIVE Normalize(_, _, _)
Normalize(neg, m, e) ==
    IF m = 0 THEN [neg |-> neg, m |-> 0, e |-> 0]
    ELSE IF m % 10 = 0 THEN Normalize(neg, m \div 10, e + 1)
    ELSE [neg |-> neg, m |-> m, e |-> e]

DZero == [neg |-> FALSE, m |-> 0, e |-> 0]

\* operator== on double: the two zeros compare equal
DoubleEq(a, b) == (a.m = 0 /\ b.m = 0) \/ a = b

\* decimal exponent of the leading digit
SciExp(d) == NumDigits(d.m) - 1 + d.e

\* std::stod(str): strtod on str.c_str(); skips white space, takes the
\* longest prefix  [+-] digits [. digits] [(e|E) [+-] digits], throws
\* std::invalid_argument when no digit was converted and std::out_of_range
\* when strtod reports ERANGE.
stod(str) ==
    LET Result(nDigits, val) ==
            IF nDigits = 0
              THEN [kind |-> "invalid_argument", val |-> DZero]
            ELSE IF val.m # 0 /\ (SciExp(val) > DBL_MAX_10_EXP \/ SciExp(val) < DBL_MIN_10_EXP)
              THEN [kind |-> "out_of_range", val |-> DZero]
            ELSE [kind |-> "ok", val |-> val]
        Exponent(neg, mant, nInt, nFrac, fracEnd) ==
            LET hasE == CharAt(str, fracEnd) = LOWER_E \/ CharAt(str, fracEnd) = UPPER_E
                eSign == CharAt(str, fracEnd + 1) = MINUS \/ CharAt(str, fracEnd + 1) = PLUS
                eNeg == CharAt(str, fracEnd + 1) = MINUS
                e1 == IF eSign THEN fracEnd + 2 ELSE fracEnd + 1
                Scaled(expEnd) ==
                    LET hasExp == hasE /\ expEnd > e1
                        expAbs == IF hasExp THEN DigitsVal(str, e1, expEnd) ELSE 0
                        exp == IF eNeg THEN 0 - expAbs ELSE expAbs
                    IN  Result(nInt + nFrac, Normalize(neg, mant, exp - nFrac))
            IN  Scaled(DigitsEnd(str, e1))
        Fraction(neg, i1, intEnd) ==
            LET hasDot == CharAt(str, intEnd) = DOT
                Mantissa(fracEnd, nFrac) ==
                    Exponent(neg,
                             DigitsVal(str, i1, intEnd) * Pow10(nFrac)
                               + (IF hasDot THEN DigitsVal(str, intEnd + 1, fracEnd) ELSE 0),
                             intEnd - i1, nFrac, fracEnd)
                Counted(fracEnd) ==
                    Mantissa(fracEnd, IF hasDot THEN fracEnd - intEnd - 1 ELSE 0)
            IN  Counted(IF hasDot THEN DigitsEnd(str, intEnd + 1) ELSE intEnd)
        Integer(neg, i1) == Fraction(neg, i1, DigitsEnd(str, i1))
        Sign(i0) ==
            LET hasSign == CharAt(str, i0) = MINUS \/ CharAt(str, i0) = PLUS
            IN  Integer(CharAt(str, i0) = MINUS, IF hasSign THEN i0 + 1 ELSE i0)
    IN  Sign(SkipSpace(str, 1))

\* decimal digits of a natural number
RECURSIVE DecDigits(_)
DecDigits(n) ==
    IF n < 10 THEN <<ZERO + n>>
    ELSE Append(DecDigits(n \div 10), ZERO + (n % 10))

\* operator<<(ostream&, integer): decimal text, '-' for negatives
FormatInt(n) == IF n < 0 THEN <<MINUS>> \o DecDigits(0 - n) ELSE DecDigits(n)

\* default precision of an ostream (std::ios_base::precision() == 6)
StreamPrecision == 6

\* zero bytes of a read buffer kept past the bytes the file supplied
MaxPad == 2

\* m rounded to its leading `keep` digits (round-half-even, as printf);
\* result [q, carry]: carry is TRUE when rounding gained a digit
RoundDigits(m, keep) ==
    LET Carry(q1) ==
            IF q1 = Pow10(keep) THEN [q |-> q1 \div 10, carry |-> TRUE]
            ELSE [q |-> q1, carry |-> FALSE]
        Round(k, q, r, half) ==
            IF k <= 0 THEN [q |-> m, carry |-> FALSE]
            ELSE Carry(IF r > half \/ (r = half /\ q % 2 = 1) THEN q + 1 ELSE q)
        Cut(k) == Round(k, m \div Pow10(k), m % Pow10(k), 5 * Pow10(k - 1))
    IN  Cut(NumDigits(m) - keep)

\* operator<<(ostream&, double) with the default flags: printf("%.6g")
FormatDouble(d) ==
    LET sign == IF d.neg THEN <<MINUS>> ELSE <<>>
        Text(x, xAbs, digs, nd) ==
            LET sci == <<digs[1]>>
                         \o (IF nd > 1 THEN <<DOT>> \o SubSeq(digs, 2, nd) ELSE <<>>)
                         \o <<LOWER_E, IF x < 0 THEN MINUS ELSE PLUS>>
                         \o (IF xAbs < 10 THEN <<ZERO>> ELSE <<>>) \o DecDigits(xAbs)
                fixed == IF x < 0
                           THEN <<ZERO, DOT>> \o ZeroDigits(0 - x - 1) \o digs
                         ELSE IF nd <= x + 1
                           THEN digs \o ZeroDigits(x + 1 - nd)
                         ELSE SubSeq(digs, 1, x + 1) \o <<DOT>> \o SubSeq(digs, x + 2, nd)
            IN  IF d.m = 0 THEN sign \o <<ZERO>>
                ELSE IF x < -4 \/ x >= StreamPrecision THEN sign \o sci
                ELSE sign \o fixed
        Digits(x, digs) == Text(x, IF x < 0 THEN 0 - x ELSE x, digs, Len(digs))
        Rounded(rd) ==
            Digits(SciExp(d) + (IF rd.carry THEN 1 ELSE 0),
                   DecDigits(Normalize(d.neg, rd.q, 0).m))
    IN  Rounded(RoundDigits(d.m, StreamPrecision))

(***************************************************************************)
(* Streams                                                                 *)
(***************************************************************************)
\* first position >= i of s that holds the character c, Len(s)+1 if none
RECURSIVE FindChar(_, _, _)
FindChar(s, i, c) ==
    IF i > Len(s) \/ s[i] = c THEN i ELSE FindChar(s, i + 1, c)

\* first position >= i of s that holds white space, Len(s)+1 if none
RECURSIVE FindSpace(_, _)
FindSpace(s, i) ==
    IF i > Len(s) \/ IsSpace(s[i]) THEN i ELSE FindSpace(s, i + 1)

\* std::getline(stream, line, delim) on a stream over the text s whose get
\* position is pos (1-based): the characters up to the delimiter, which is
\* consumed; fails (line stays empty) when no character is left.
getline(s, pos, delim) ==
    LET end == FindChar(s, pos, delim)
    IN  IF pos > Len(s) THEN [line |-> <<>>, pos |-> pos, ok |-> FALSE]
        ELSE [line |-> SubSeq(s, pos, end - 1), pos |-> end + 1, ok |-> TRUE]

\* operator>>(istream&, std::string&): skips white space, takes the
\* characters up to the next white space; fails at end of input.
ReadToken(s, pos) ==
    LET Token(i, j) ==
            IF i > Len(s) THEN [ok |-> FALSE, tok |-> <<>>, pos |-> i]
            ELSE [ok |-> TRUE, tok |-> SubSeq(s, i, j - 1), pos |-> j]
        Skipped(i) == Token(i, FindSpace(s, i))
    IN  Skipped(SkipSpace(s, pos))

\* operator>>(istream&, std::streamoff&): skips white space, takes
\* [+-] digits; fails when there is no digit.
ReadInt(s, pos) ==
    LET Value(neg, i1, j) ==
            IF j = i1 THEN [ok |-> FALSE, val |-> 0, pos |-> j]
            ELSE [ok |-> TRUE,
                  val |-> IF neg THEN 0 - DigitsVal(s, i1, j) ELSE DigitsVal(s, i1, j),
                  pos |-> j]
        Digits(neg, i1) == Value(neg, i1, DigitsEnd(s, i1))
        Sign(i) ==
            LET hasSign == CharAt(s, i) = MINUS \/ CharAt(s, i) = PLUS
            IN  Digits(CharAt(s, i) = MINUS, IF hasSign THEN i + 1 ELSE i)
    IN  Sign(SkipSpace(s, pos))

\* little-endian fixed-width integers, as written by
\* write(reinterpret_cast<const char*>(&x), sizeof(x))
U16LE(n) == <<n % 256, (n \div 256) % 256>>

U32LE(n) == <<n % 256, (n \div 256) % 256, (n \div 65536) % 256, (n \div 16777216) % 256>>

\* the uint32_t whose first Len(got) bytes were read and whose other bytes
\* keep what the uninitialised variable held (garbage)
U32FromBytes(got, garbage) ==
    LET g == U32LE(garbage)
        b == [k \in 1..4 |-> IF k <= Len(got) THEN got[k] ELSE g[k]]
    IN  b[1] + 256 * b[2] + 65536 * b[3] + 16777216 * b[4]

\* an ifstream: off is the get position (bytes before it), good is FALSE
\* once eofbit or failbit is set (every later read and tellg fails)
OpenAt(off) == [off |-> IF off < 0 THEN 0 ELSE off, good |-> off >= 0]

\* istream::read(buf, n) on the bytes of a file: the bytes obtained and the
\* stream afterwards
StreamRead(bytes, st, n) ==
    LET avail == IF st.off >= Len(bytes) THEN 0 ELSE Len(bytes) - st.off
        Take(k) ==
            [got |-> SubSeq(bytes, st.off + 1, st.off + k),
             st |-> [off |-> st.off + k, good |-> st.good /\ k = n]]
    IN  Take(IF st.good THEN Min(n, avail) ELSE 0)

\* istream::tellg(): -1 when the stream has failed
tellg(st) == IF st.good THEN st.off ELSE -1

(***************************************************************************)
(* Store format                                                            *)
(***************************************************************************)
fileType == <<90, 105, 112, 67, 111, 100, 101, 76, 101, 110, 103, 116, 104,
              73, 110, 100, 105, 99, 97, 116, 101, 100>>   \* "ZipCodeLengthIndicated"

version == 1
\* the header length computed without the byte of the tag's terminator
headerSizeWithoutTerminator == Len(fileType) + 2 + 4 + 4

headerSize == Len(fileType) + 1 + 2 + 4 + 4

\* the four header writes of convertToLengthIndicatedFile
WriteHeader(recordCount) ==
    fileType \o <<NUL>> \o U16LE(version) \o U32LE(headerSize) \o U32LE(recordCount)

\* oss << zipCode << "," << placeName << "," << state << "," << county
\*     << "," << latitude << "," << longitude
recordString(record) ==
    record.zipCode \o <<COMMA>> \o record.placeName \o <<COMMA>> \o record.state
      \o <<COMMA>> \o record.county \o <<COMMA>> \o FormatDouble(record.latitude)
      \o <<COMMA>> \o FormatDouble(record.longitude)

\* one frame: the uint32_t length, then the bytes of the record string
WriteFrame(payload) == U32LE(Len(payload)) \o payload
\* the frame loop running over the container from its end
RECURSIVE WriteFramesReversed(_)
WriteFramesReversed(recs) ==
    IF recs = <<>> THEN <<>>
    ELSE WriteFramesReversed(Tail(recs)) \o WriteFrame(recordString(Head(recs)))

RECURSIVE WriteFrames(_)
WriteFrames(recs) ==
    IF recs = <<>> THEN <<>>
    ELSE WriteFrame(recordString(Head(recs))) \o WriteFrames(Tail(recs))

\* the header reads shared by loadFromLengthIndicatedFile and
\* createPrimaryKeyIndex: getline to the NUL, then version, headerSize and
\* recordCount; the stream after them and the recordCount obtained
ReadHeader(bytes, garbage) ==
    LET Tag(tagEnd) == [off |-> Min(tagEnd, Len(bytes)), good |-> tagEnd <= Len(bytes)]
        Count(r3) == [st |-> r3.st, recordCount |-> U32FromBytes(r3.got, garbage)]
        HeaderSize(r2) == Count(StreamRead(bytes, r2.st, 4))
        Version(r1) == HeaderSize(StreamRead(bytes, r1.st, 4))
    IN  Version(StreamRead(bytes, Tag(FindChar(bytes, 1, NUL)), 2))

\* a frame read that takes the payload to end with a terminator byte
ReadFrameTerminated(bytes, st, garbage) ==
    LET Frame(rl, recordLength, rb) ==
            [at |-> tellg(st), lenBytes |-> Len(rl.got), recordLength |-> recordLength,
             dataBytes |-> Len(rb.got),
             buffer |-> rb.got \o Zeros(Min(recordLength + 1 - Len(rb.got), MaxPad)),
             st |-> rb.st]
        Data(rl, recordLength) ==
            Frame(rl, recordLength, StreamRead(bytes, rl.st, recordLength + 1))
        Length(rl) == Data(rl, U32FromBytes(rl.got, garbage))
    IN  Length(StreamRead(bytes, st, 4))

\* one frame read: the length, then vector<char> buffer(recordLength)
\* (zero-filled) overwritten by the bytes read(buffer.data(), recordLength)
\* obtains.  Zero bytes past MaxPad are not materialised.
ReadFrame(bytes, st, garbage) ==
    LET Frame(rl, recordLength, rb) ==
            [at |-> tellg(st), lenBytes |-> Len(rl.got), recordLength |-> recordLength,
             dataBytes |-> Len(rb.got),
             buffer |-> rb.got \o Zeros(Min(recordLength - Len(rb.got), MaxPad)),
             st |-> rb.st]
        Data(rl, recordLength) ==
            Frame(rl, recordLength, StreamRead(bytes, rl.st, recordLength))
        Length(rl) == Data(rl, U32FromBytes(rl.got, garbage))
    IN  Length(StreamRead(bytes, st, 4))

\* the six getline(ss, field, ',') calls on a stringstream over the record
\* string: fields a failed getline leaves are empty
SplitFields(s) ==
    LET Field(pos) == getline(s, pos, COMMA)
        F6(fs, f) == Append(fs, f.line)
        F5(fs, f) == F6(Append(fs, f.line), Field(f.pos))
        F4(fs, f) == F5(Append(fs, f.line), Field(f.pos))
        F3(fs, f) == F4(Append(fs, f.line), Field(f.pos))
        F2(fs, f) == F3(Append(fs, f.line), Field(f.pos))
        F1(fs, f) == F2(Append(fs, f.line), Field(f.pos))
    IN  F1(<<>>, Field(1))

ZipCodeRecord(zipCode, placeName, state, county, latitude, longitude) ==
    [zipCode |-> zipCode, placeName |-> placeName, state |-> state,
     county |-> county, latitude |-> latitude, longitude |-> longitude]

NoRecord == ZipCodeRecord(<<>>, <<>>, <<>>, <<>>, DZero, DZero)

\* the decode with the empty-text default of loadFromCSV: an empty latitude
\* or longitude text is 0.0
DecodeRecordDefaulting(s) ==
    LET Decoded(f, lat, lng) ==
            IF lat.kind # "ok" THEN [kind |-> lat.kind, record |-> NoRecord]
            ELSE IF lng.kind # "ok" THEN [kind |-> lng.kind, record |-> NoRecord]
            ELSE [kind |-> "ok",
                  record |-> ZipCodeRecord(f[1], f[2], f[3], f[4], lat.val, lng.val)]
        Fields(f) ==
            Decoded(f,
                    IF f[5] # <<>> THEN stod(f[5]) ELSE [kind |-> "ok", val |-> DZero],
                    IF f[6] # <<>> THEN stod(f[6]) ELSE [kind |-> "ok", val |-> DZero])
    IN  Fields(SplitFields(s))

\* the decode shared by loadFromLengthIndicatedFile and readRecordAtOffset:
\* split, then stod on the latitude text, then on the longitude text; kind
\* is the exception the first failing stod throws
DecodeRecord(s) ==
    LET Decoded(f, lat, lng) ==
            IF lat.kind # "ok" THEN [kind |-> lat.kind, record |-> NoRecord]
            ELSE IF lng.kind # "ok" THEN [kind |-> lng.kind, record |-> NoRecord]
            ELSE [kind |-> "ok",
                  record |-> ZipCodeRecord(f[1], f[2], f[3], f[4], lat.val, lng.val)]
        Fields(f) == Decoded(f, stod(f[5]), stod(f[6]))
    IN  Fields(SplitFields(s))

(***************************************************************************)
(* Operations of Buffer, as functions of the files they read               *)
(***************************************************************************)
NoFile == [exists |-> FALSE, bytes |-> <<>>]

File(bytes) == [exists |-> TRUE, bytes |-> bytes]

\* the while (std::getline(file, line)) loop of loadFromCSV from get
\* position pos; acc is the records pushed so far.  An empty latitude or
\* longitude text is 0.0, std::invalid_argument skips the line and
\* std::out_of_range leaves the function.
RECURSIVE CsvLoop(_, _, _)
CsvLoop(text, pos, acc) ==
    LET Caught(gl, f, lat, lng, kind) ==
            IF kind = "out_of_range" THEN [kind |-> kind, records |-> acc]
            ELSE IF kind = "invalid_argument" THEN CsvLoop(text, gl.pos, acc)
            ELSE CsvLoop(text, gl.pos,
                         Append(acc, ZipCodeRecord(f[1], f[2], f[3], f[4], lat.val, lng.val)))
        Parsed(gl, f, lat, lng) ==
            Caught(gl, f, lat, lng, IF lat.kind # "ok" THEN lat.kind ELSE lng.kind)
        Fields(gl, f) ==
            Parsed(gl, f,
                   IF f[5] # <<>> THEN stod(f[5]) ELSE [kind |-> "ok", val |-> DZero],
                   IF f[6] # <<>> THEN stod(f[6]) ELSE [kind |-> "ok", val |-> DZero])
        Line(gl) ==
            IF ~gl.ok THEN [kind |-> "ok", records |-> acc]
            ELSE Fields(gl, SplitFields(gl.line))
    IN  Line(getline(text, pos, NL))

\* Buffer::loadFromCSV on an opened file: the header line is skipped
loadFromCSV(text, records0) == CsvLoop(text, getline(text, 1, NL).pos, records0)
\* the writer with the count taken before any record is in the container
convertToLengthIndicatedFileStaleCount(recs) == WriteHeader(0) \o WriteFrames(recs)

\* Buffer::convertToLengthIndicatedFile: the bytes written to the output
convertToLengthIndicatedFile(recs) == WriteHeader(Len(recs)) \o WriteFrames(recs)

\* what one frame read leaves in the log of a reader
LogEntry(fr) ==
    [at |-> fr.at, lenBytes |-> fr.lenBytes, recordLength |-> fr.recordLength,
     dataBytes |-> fr.dataBytes]

\* the frame loop with "break" in place of "continue": it ends at the first
\* frame that does not decode
RECURSIVE LoadLoopBreak(_, _, _, _, _, _, _)
LoadLoopBreak(bytes, st, i, recordCount, garbage, acc, log) ==
    LET Decoded(fr, dec, log1) ==
            IF dec.kind = "out_of_range"
              THEN [kind |-> dec.kind, records |-> acc, log |-> log1]
            ELSE IF dec.kind = "invalid_argument"
              THEN [kind |-> "ok", records |-> acc, log |-> log1]
            ELSE LoadLoopBreak(bytes, fr.st, i + 1, recordCount, garbage,
                               Append(acc, dec.record), log1)
        Frame(fr) == Decoded(fr, DecodeRecord(fr.buffer), Append(log, LogEntry(fr)))
    IN  IF i >= recordCount THEN [kind |-> "ok", records |-> acc, log |-> log]
        ELSE Frame(ReadFrame(bytes, st, garbage))

\* the frame loop of loadFromLengthIndicatedFile, iterations i..recordCount-1
RECURSIVE LoadLoop(_, _, _, _, _, _, _)
LoadLoop(bytes, st, i, recordCount, garbage, acc, log) ==
    LET Decoded(fr, dec, log1) ==
            IF dec.kind = "out_of_range"
              THEN [kind |-> dec.kind, records |-> acc, log |-> log1]
            ELSE IF dec.kind = "invalid_argument"
              THEN LoadLoop(bytes, fr.st, i + 1, recordCount, garbage, acc, log1)
            ELSE LoadLoop(bytes, fr.st, i + 1, recordCount, garbage,
                          Append(acc, dec.record), log1)
        Frame(fr) == Decoded(fr, DecodeRecord(fr.buffer), Append(log, LogEntry(fr)))
    IN  IF i >= recordCount THEN [kind |-> "ok", records |-> acc, log |-> log]
        ELSE Frame(ReadFrame(bytes, st, garbage))
\* the bulk reader clearing the container before it appends
loadFromLengthIndicatedFileClearing(bytes, records0, garbage) ==
    LET Frames(h) == LoadLoop(bytes, h.st, 0, h.recordCount, garbage, <<>>, <<>>)
    IN  Frames(ReadHeader(bytes, garbage))

\* Buffer::loadFromLengthIndicatedFile on an opened file
loadFromLengthIndicatedFile(bytes, records0, garbage) ==
    LET Frames(h) == LoadLoop(bytes, h.st, 0, h.recordCount, garbage, records0, <<>>)
    IN  Frames(ReadHeader(bytes, garbage))

\* tellg() taken after the length was read: the offset of the payload
SavedOffsetAfterLength(fr) == IF fr.at < 0 THEN fr.at ELSE fr.at + fr.lenBytes

\* the offset createPrimaryKeyIndex saves for a frame: tellg() before the
\* length is read
SavedOffset(fr) == fr.at
\* the index line with the delimiter of the record string between key and
\* offset
IndexLineComma(zipCode, fileOffset) ==
    zipCode \o <<COMMA>> \o FormatInt(fileOffset) \o <<NL>>

\* indexFile << zipCode << " " << fileOffset << "\n"
IndexLine(zipCode, fileOffset) == zipCode \o <<SP>> \o FormatInt(fileOffset) \o <<NL>>

\* the frame loop that writes a line only for a frame that decodes
RECURSIVE IndexLoopDecodable(_, _, _, _, _)
IndexLoopDecodable(bytes, st, i, recordCount, garbage) ==
    LET Frame(fr) ==
            (IF DecodeRecord(fr.buffer).kind = "ok"
               THEN IndexLine(getline(fr.buffer, 1, COMMA).line, SavedOffset(fr))
             ELSE <<>>)
              \o IndexLoopDecodable(bytes, fr.st, i + 1, recordCount, garbage)
    IN  IF i >= recordCount THEN <<>> ELSE Frame(ReadFrame(bytes, st, garbage))

\* the frame loop of createPrimaryKeyIndex: one line per iteration
RECURSIVE IndexLoop(_, _, _, _, _)
IndexLoop(bytes, st, i, recordCount, garbage) ==
    LET Frame(fr) ==
            IndexLine(getline(fr.buffer, 1, COMMA).line, SavedOffset(fr))
              \o IndexLoop(bytes, fr.st, i + 1, recordCount, garbage)
    IN  IF i >= recordCount THEN <<>> ELSE Frame(ReadFrame(bytes, st, garbage))

\* Buffer::createPrimaryKeyIndex with both files opened: the index text
createPrimaryKeyIndex(bytes, garbage) ==
    LET Frames(h) == IndexLoop(bytes, h.st, 0, h.recordCount, garbage)
    IN  Frames(ReadHeader(bytes, garbage))

\* the loop that keeps scanning after a match: the last matching pair wins
RECURSIVE SearchLoopLast(_, _, _, _)
SearchLoopLast(text, pos, zipCode, found) ==
    LET Pair(t, o) ==
            IF ~t.ok \/ ~o.ok THEN found
            ELSE SearchLoopLast(text, o.pos, zipCode, IF t.tok = zipCode THEN o.val ELSE found)
        Key(t) == Pair(t, ReadInt(text, t.pos))
    IN  Key(ReadToken(text, pos))

\* the loop that ends with "return fileOffset": the offset read last
RECURSIVE SearchLoopStale(_, _, _, _)
SearchLoopStale(text, pos, zipCode, prev) ==
    LET Pair(t, o) ==
            IF ~t.ok \/ ~o.ok THEN prev
            ELSE IF t.tok = zipCode THEN o.val
            ELSE SearchLoopStale(text, o.pos, zipCode, o.val)
        Key(t) == Pair(t, ReadInt(text, t.pos))
    IN  Key(ReadToken(text, pos))

searchPrimaryKeyLast(index, zipCode) ==
    IF ~index.exists THEN -1 ELSE SearchLoopLast(index.bytes, 1, zipCode, -1)

searchPrimaryKeyStale(index, zipCode) ==
    IF ~index.exists THEN -1 ELSE SearchLoopStale(index.bytes, 1, zipCode, -1)

\* while (indexFile >> currentZipCode >> fileOffset): first matching pair
RECURSIVE SearchLoop(_, _, _)
SearchLoop(text, pos, zipCode) ==
    LET Pair(t, o) ==
            IF ~t.ok \/ ~o.ok THEN -1
            ELSE IF t.tok = zipCode THEN o.val
            ELSE SearchLoop(text, o.pos, zipCode)
        Key(t) == Pair(t, ReadInt(text, t.pos))
    IN  Key(ReadToken(text, pos))

\* Buffer::searchPrimaryKey
searchPrimaryKey(index, zipCode) ==
    IF ~index.exists THEN -1 ELSE SearchLoop(index.bytes, 1, zipCode)

\* Buffer::readRecordAtOffset: kind is "ok" or the exception thrown
readRecordAtOffset(data, fileOffset, garbage) ==
    LET Frame(fr) == DecodeRecord(fr.buffer)
    IN  IF ~data.exists THEN [kind |-> "runtime_error", record |-> NoRecord]
        ELSE Frame(ReadFrame(data.bytes, OpenAt(fileOffset), garbage))

\* Buffer::getRecordByZip: position of the first record with the zip code,
\* 0 for nullptr
getRecordByZip(recs, zipCode) ==
    IF \E i \in 1..Len(recs) : recs[i].zipCode = zipCode
      THEN CHOOSE i \in 1..Len(recs) :
             /\ recs[i].zipCode = zipCode
             /\ \A j \in 1..(i - 1) : recs[j].zipCode # zipCode
    ELSE 0

(***************************************************************************)
(* Inputs                                                                  *)
(***************************************************************************)
\* records the buffer takes from CSV files, and records it takes in all
MaxRecords == 2
MaxBuffer == 4
MaxCsvRows == 2
MaxExternalFrames == 3
MaxCut == 3

\* data rows of the CSV file a run of the program reads
MaxRunRows == 1

CsvHeader == <<90, 44, 80, 44, 83, 44, 67, 44, 76, 97, 44, 76, 111>>   \* "Z,P,S,C,La,Lo"

CsvRows ==
    { <<48, 49, 44, 65, 44, 78, 89, 44, 88, 44, 49, 46, 53, 44, 50, 46, 50, 53>>,
        \* "01,A,NY,X,1.5,2.25"
      <<48, 49, 44, 66, 44, 67, 65, 44, 89, 44, 45, 49, 52, 57, 46, 56, 57, 57, 55, 44, 54, 49, 46, 50>>,
        \* "01,B,CA,Y,-149.8997,61.2"   same key, seven significant digits
      <<44, 67, 44, 84, 88, 44, 87, 44, 51, 44, 52>>,
        \* ",C,TX,W,3,4"                empty key
      <<48, 32, 50, 44, 68, 44, 77, 78, 44, 86, 44, 44, 53>>,
        \* "0 2,D,MN,V,,5"              key with a space, empty latitude
      <<48, 51, 44, 69, 44, 87, 65, 44, 85, 44, 97, 98, 99, 44, 49>> }
        \* "03,E,WA,U,abc,1"            latitude is no number

RECURSIVE SeqsUpTo(_, _)
SeqsUpTo(S, n) ==
    IF n <= 0 THEN {<<>>}
    ELSE LET shorter == SeqsUpTo(S, n - 1)
         IN  shorter \cup {Append(q, x) : q \in shorter, x \in S}

RECURSIVE CsvLines(_)
CsvLines(rows) ==
    IF rows = <<>> THEN <<>> ELSE Head(rows) \o <<NL>> \o CsvLines(Tail(rows))

\* the CSV files of 1..n data rows
CsvFiles(n) == {CsvHeader \o <<NL>> \o CsvLines(rows) : rows \in SeqsUpTo(CsvRows, n) \ {<<>>}}

\* payloads of the stores another producer of the format left on disk
ExternalPayloads ==
    << <<48, 55, 44, 73, 44, 77, 78, 44, 86, 44, 49, 44, 50>>,
         \* "07,I,MN,V,1,2"
       <<48, 52, 44, 70, 44, 67, 65, 44, 89, 44, 97, 98, 99, 44, 50>>,
         \* "04,F,CA,Y,abc,2"     latitude is no number
       <<48, 56, 44, 74, 44, 87, 65, 44, 85, 44, 51, 44, 52, 50>>,
         \* "08,J,WA,U,3,42"
       <<48, 53, 44, 71, 44, 78, 89, 44, 90, 44, 49, 46, 53>>,
         \* "05,G,NY,Z,1.5"       no longitude field
       <<48, 54, 44, 72, 44, 84, 88, 44, 87, 44, 49, 101, 57, 57, 57, 44, 49>>,
         \* "06,H,TX,W,1e999,1"   latitude beyond the range of double
       <<>> >>

\* the payloads chosen by the index set S, in the order of ExternalPayloads
RECURSIVE Chosen(_, _)
Chosen(S, i) ==
    IF i > Len(ExternalPayloads) THEN <<>>
    ELSE (IF i \in S THEN <<ExternalPayloads[i]>> ELSE <<>>) \o Chosen(S, i + 1)

RECURSIVE FramesOf(_)
FramesOf(payloads) ==
    IF payloads = <<>> THEN <<>>
    ELSE WriteFrame(Head(payloads)) \o FramesOf(Tail(payloads))

ExternalStores ==
    {WriteHeader(Cardinality(S)) \o FramesOf(Chosen(S, 1)) :
        S \in {T \in SUBSET (1..Len(ExternalPayloads)) :
                 Cardinality(T) >= 1 /\ Cardinality(T) <= MaxExternalFrames}}

ProgramKeys ==
    { <<48, 49>>,      \* "01"
      <<48>>,          \* "0"
      <<51, 51>>,      \* "33"
      <<57, 57>> }     \* "99"

\* keys looked up in the container: one the CSV rows hold, one they do not
BufferKeys ==
    { <<48, 49>>,      \* "01"
      <<57, 57>> }     \* "99"

DiskKeys ==
    { <<48, 55>>,      \* "07"
      <<48, 52>>,      \* "04"
      <<48, 53>>,      \* "05"
      <<48, 54>>,      \* "06"
      <<57, 57>> }     \* "99"

\* what an uninitialised uint32_t may hold: nothing, or something
Garbage == {0, 5}

(***************************************************************************)
(* State                                                                   *)
(***************************************************************************)
VARIABLES
    records,     \* Buffer::records
    storeFile,   \* us_postal_codes.dat
    indexFile,   \* primary_key_index.dat
    last,        \* the last call and what its caller observed
    hist         \* history: who wrote the store, what the index was built from

vars == <<records, storeFile, indexFile, last, hist>>

Call(op, ret, kind) ==
    [op |-> op, ret |-> ret, kind |-> kind, key |-> <<>>, offset |-> -1,
     reads |-> 0, record |-> NoRecord, log |-> <<>>, before |-> 0, found |-> 0]

NoHistory == [storeBy |-> "none", written |-> <<>>, indexBuilt |-> FALSE, indexed |-> <<>>]

\* a fresh Buffer in a directory without store and index
Init ==
    /\ records = <<>>
    /\ storeFile = NoFile
    /\ indexFile = NoFile
    /\ last = Call("none", TRUE, "ok")
    /\ hist = NoHistory

\* a fresh Buffer in a directory that holds a store file of another
\* producer, or no store file
InitDisk ==
    /\ records = <<>>
    /\ storeFile \in {NoFile} \cup {File(b) : b \in ExternalStores}
    /\ indexFile = NoFile
    /\ last = Call("none", TRUE, "ok")
    /\ hist = [NoHistory EXCEPT !.storeBy = IF storeFile.exists THEN "external" ELSE "none"]

\* buffer.loadFromCSV(csv): a file that cannot be opened returns false.
\* The files offered have at most one row more than the buffer may still take.
LoadFromCSV ==
    LET Returned(r) ==
            /\ Len(r.records) <= MaxRecords
            /\ records' = r.records
            /\ last' = [Call("loadFromCSV", r.kind = "ok", r.kind)
                          EXCEPT !.before = Len(records)]
            /\ UNCHANGED <<storeFile, indexFile, hist>>
    IN  \/ /\ last' = [Call("loadFromCSV", FALSE, "ok") EXCEPT !.before = Len(records)]
           /\ UNCHANGED <<records, storeFile, indexFile, hist>>
        \/ \E text \in CsvFiles(Min(MaxCsvRows, MaxRecords + 1 - Len(records))) :
            Returned(loadFromCSV(text, records))

\* buffer.convertToLengthIndicatedFile(csv, "us_postal_codes.dat")
ConvertToLengthIndicatedFile ==
    \/ /\ last' = Call("convertToLengthIndicatedFile", FALSE, "ok")
       /\ UNCHANGED <<records, storeFile, indexFile, hist>>
    \/ /\ storeFile' = File(convertToLengthIndicatedFile(records))
       /\ hist' = [hist EXCEPT !.storeBy = "writer", !.written = records]
       /\ last' = Call("convertToLengthIndicatedFile", TRUE, "ok")
       /\ UNCHANGED <<records, indexFile>>

\* buffer.loadFromLengthIndicatedFile("us_postal_codes.dat")
LoadFromLengthIndicatedFile ==
    LET Returned(r) ==
            /\ Len(r.records) <= MaxBuffer
            /\ records' = r.records
            /\ last' = [Call("loadFromLengthIndicatedFile", r.kind = "ok", r.kind)
                          EXCEPT !.log = r.log, !.before = Len(records)]
            /\ UNCHANGED <<storeFile, indexFile, hist>>
    IN  \/ /\ ~storeFile.exists
           /\ last' = Call("loadFromLengthIndicatedFile", FALSE, "ok")
           /\ UNCHANGED <<records, storeFile, indexFile, hist>>
        \/ \E garbage \in Garbage :
            /\ storeFile.exists
            /\ Returned(loadFromLengthIndicatedFile(storeFile.bytes, records, garbage))

\* buffer.createPrimaryKeyIndex("us_postal_codes.dat", "primary_key_index.dat"):
\* the data file is opened first, the index file is truncated when it opens
CreatePrimaryKeyIndex ==
    \/ /\ last' = Call("createPrimaryKeyIndex", FALSE, "ok")
       /\ UNCHANGED <<records, storeFile, indexFile, hist>>
    \/ \E garbage \in Garbage :
        /\ storeFile.exists
        /\ indexFile' = File(createPrimaryKeyIndex(storeFile.bytes, garbage))
        /\ hist' = [hist EXCEPT !.indexBuilt = TRUE, !.indexed = storeFile.bytes]
        /\ last' = Call("createPrimaryKeyIndex", TRUE, "ok")
        /\ UNCHANGED <<records, storeFile>>

\* searchZipCode(buffer, zipCode) of main.cpp, zipCode drawn from keys
SearchZipCode(keys) ==
    LET Printed(zipCode, offset, r) ==
            /\ last' = IF offset # -1
                         THEN [Call("searchZipCode", r.kind = "ok",
                                    IF r.kind = "ok" THEN "Record" ELSE r.kind)
                                 EXCEPT !.key = zipCode, !.offset = offset,
                                        !.reads = 1, !.record = r.record]
                       ELSE [Call("searchZipCode", TRUE, "NotFound")
                               EXCEPT !.key = zipCode, !.offset = offset]
            /\ UNCHANGED <<records, storeFile, indexFile, hist>>
        Found(zipCode, offset, garbage) ==
            Printed(zipCode, offset, readRecordAtOffset(storeFile, offset, garbage))
    IN  \E zipCode \in keys, garbage \in Garbage :
            Found(zipCode, searchPrimaryKey(indexFile, zipCode), garbage)
\* buffer.getRecordByZip(zipCode): found is the position of the record the
\* returned pointer refers to, 0 for nullptr
GetRecordByZip ==
    \E zipCode \in BufferKeys :
        /\ last' = [Call("getRecordByZip", getRecordByZip(records, zipCode) # 0, "ok")
                      EXCEPT !.key = zipCode, !.found = getRecordByZip(records, zipCode)]
        /\ UNCHANGED <<records, storeFile, indexFile, hist>>

\* the store file loses its last n bytes (an interrupted copy, a full disk);
\* the header stays whole
TruncateStore ==
    \E n \in 1..MaxCut :
        /\ storeFile.exists
        /\ hist.storeBy \in {"writer", "external"}
        /\ Len(storeFile.bytes) - n >= headerSize
        /\ storeFile' = File(SubSeq(storeFile.bytes, 1, Len(storeFile.bytes) - n))
        /\ hist' = [hist EXCEPT !.storeBy = "truncated"]
        /\ last' = Call("none", TRUE, "ok")
        /\ UNCHANGED <<records, indexFile>>

\* the program on its own files
Next ==
    \/ LoadFromCSV
    \/ ConvertToLengthIndicatedFile
    \/ LoadFromLengthIndicatedFile
    \/ CreatePrimaryKeyIndex
    \/ SearchZipCode(ProgramKeys)
    \/ GetRecordByZip

Spec == Init /\ [][Next]_vars

\* the readers of the program on a store file found on disk
NextDisk ==
    \/ TruncateStore
    \/ LoadFromLengthIndicatedFile
    \/ CreatePrimaryKeyIndex
    \/ SearchZipCode(DiskKeys)

SpecDisk == InitDisk /\ [][NextDisk]_vars
\* one run of main without -z (src/main.cpp:213-249) in a fresh process:
\* loadFromCSV into an empty Buffer; when it returns true, the store is
\* written and the index is built, and neither return value is looked at.
\* storeOpens and indexOpens say whether the output file of the writer and
\* the index file of the builder open.  An exception out of loadFromCSV ends
\* the process before the writer runs.  The process ends: no Buffer is left.
MainBulk ==
    LET Built(r, store1, builds, garbage) ==
            /\ storeFile' = store1
            /\ indexFile' = IF builds THEN File(createPrimaryKeyIndex(store1.bytes, garbage))
                            ELSE indexFile
            /\ hist' = [storeBy |-> IF store1 = storeFile THEN hist.storeBy ELSE "writer",
                        written |-> IF store1 = storeFile THEN hist.written ELSE r.records,
                        indexBuilt |-> hist.indexBuilt \/ builds,
                        indexed |-> IF builds THEN store1.bytes ELSE hist.indexed]
            /\ last' = Call("main", builds, "ok")
        Written(r, store1, indexOpens, garbage) ==
            Built(r, store1, store1.exists /\ indexOpens, garbage)
        Loaded(r, storeOpens, indexOpens, garbage) ==
            IF r.kind # "ok"
              THEN /\ last' = Call("main", FALSE, r.kind)
                   /\ UNCHANGED <<storeFile, indexFile, hist>>
            ELSE Written(r,
                         IF storeOpens THEN File(convertToLengthIndicatedFile(r.records))
                         ELSE storeFile,
                         indexOpens, garbage)
    IN  /\ records' = <<>>
        /\ \/ /\ last' = Call("main", FALSE, "ok")
              /\ UNCHANGED <<storeFile, indexFile, hist>>
           \/ \E text \in CsvFiles(MaxRunRows), garbage \in Garbage,
                 storeOpens \in BOOLEAN, indexOpens \in BOOLEAN :
                Loaded(loadFromCSV(text, <<>>), storeOpens, indexOpens, garbage)

\* one run of main with -z<zipCode> (src/main.cpp:202-209)
MainSearch == SearchZipCode(ProgramKeys)

\* runs of the program, one after the other, in one directory
NextMain ==
    \/ MainBulk
    \/ MainSearch

SpecMain == Init /\ [][NextMain]_vars

(***************************************************************************)
(* The files as a reader of the format sees them                           *)
(***************************************************************************)
\* the little-endian 32-bit value of the four bytes after offset off
LE32At(bytes, off) ==
    bytes[off + 1] + 256 * bytes[off + 2] + 65536 * bytes[off + 3]
      + 16777216 * bytes[off + 4]

\* offset of the first byte after the preamble: tag, terminator, 2 + 4 + 4
FirstFrameOffset(bytes) == FindChar(bytes, 1, NUL) + 2 + 4 + 4

\* the record count the header declares
DeclaredCount(bytes) == LE32At(bytes, FirstFrameOffset(bytes) - 4)

\* the whole frames that follow offset off: where each starts and its length
RECURSIVE WholeFrames(_, _)
WholeFrames(bytes, off) ==
    IF off + 4 > Len(bytes) THEN <<>>
    ELSE IF off + 4 + LE32At(bytes, off) > Len(bytes) THEN <<>>
    ELSE <<[at |-> off, len |-> LE32At(bytes, off)]>>
           \o WholeFrames(bytes, off + 4 + LE32At(bytes, off))

StoreFrames(bytes) == WholeFrames(bytes, FirstFrameOffset(bytes))

\* the payload bytes of a frame
Payload(bytes, fr) == SubSeq(bytes, fr.at + 5, fr.at + 4 + fr.len)

\* the key of a payload: its text before the first comma
PayloadKey(p) == SubSeq(p, 1, FindChar(p, 1, COMMA) - 1)

\* the n-th comma-separated field of a payload, empty when there is none
RECURSIVE FieldOf(_, _)
FieldOf(p, n) ==
    IF n = 1 THEN PayloadKey(p)
    ELSE IF FindChar(p, 1, COMMA) > Len(p) THEN <<>>
    ELSE FieldOf(SubSeq(p, FindChar(p, 1, COMMA) + 1, Len(p)), n - 1)

\* a text that starts, after white space and a sign, with a digit or with
\* a point and a digit
HasNumber(t) ==
    LET i == SkipSpace(t, 1)
        j == IF CharAt(t, i) = MINUS \/ CharAt(t, i) = PLUS THEN i + 1 ELSE i
    IN  IsDigit(CharAt(t, j)) \/ (CharAt(t, j) = DOT /\ IsDigit(CharAt(t, j + 1)))

\* a payload whose latitude or longitude text is empty or no number
Malformed(p) == ~HasNumber(FieldOf(p, 5)) \/ ~HasNumber(FieldOf(p, 6))

\* the lines of a text, each without its newline
RECURSIVE TextLines(_, _)
TextLines(text, pos) ==
    IF pos > Len(text) THEN <<>>
    ELSE <<SubSeq(text, pos, FindChar(text, pos, NL) - 1)>>
           \o TextLines(text, FindChar(text, pos, NL) + 1)

\* last position <= i of a line that holds a space, 0 if none
RECURSIVE LastSpace(_, _)
LastSpace(line, i) ==
    IF i = 0 \/ line[i] = SP THEN i ELSE LastSpace(line, i - 1)

\* an index line "<key> <offset>" read from its end: the offset is the
\* decimal number after the last space, the key everything before it
LineKey(line) == SubSeq(line, 1, LastSpace(line, Len(line)) - 1)

LineOffsetText(line) == SubSeq(line, LastSpace(line, Len(line)) + 1, Len(line))

IsNumeral(t) == t # <<>> /\ \A i \in 1..Len(t) : IsDigit(t[i])

LineOffset(line) == DigitsVal(LineOffsetText(line), 1, Len(LineOffsetText(line)) + 1)

IndexLines == TextLines(indexFile.bytes, 1)

\* the store is what the writer wrote from hist.written and the index was
\* built from exactly these bytes
FreshIndex ==
    /\ hist.storeBy = "writer"
    /\ storeFile.exists
    /\ indexFile.exists
    /\ hist.indexBuilt
    /\ hist.indexed = storeFile.bytes

\* a key the index can hold as one token
PlainKey(k) == k # <<>> /\ \A i \in 1..Len(k) : ~IsSpace(k[i])

PlainKeys(recs) == \A i \in 1..Len(recs) : PlainKey(recs[i].zipCode)

(***************************************************************************)
(* C1: in the index built from a store the writer wrote, every line        *)
(* (k, offset) has the offset of the first byte of a frame's length field  *)
(* and readRecordAtOffset at that offset yields a record with key k.       *)
(***************************************************************************)
C1_OffsetCorrectness ==
    FreshIndex =>
        LET frames == StoreFrames(storeFile.bytes)
        IN  /\ Len(frames) = Len(hist.written)
            /\ \A n \in 1..Len(IndexLines) :
                 LET line == IndexLines[n]
                 IN  /\ LastSpace(line, Len(line)) > 0
                     /\ IsNumeral(LineOffsetText(line))
                     /\ \E i \in 1..Len(frames) : frames[i].at = LineOffset(line)
                     /\ \A g \in Garbage :
                          LET r == readRecordAtOffset(storeFile, LineOffset(line), g)
                          IN  r.kind = "ok" /\ r.record.zipCode = LineKey(line)

C1_Witness ==
    /\ FreshIndex
    /\ last.op = "createPrimaryKeyIndex"
    /\ Len(IndexLines) >= 2
    /\ IndexLines[1] # IndexLines[2]

\* the frames of the store file and the first of them that holds key k
Frames == StoreFrames(storeFile.bytes)

FrameKey(i) == PayloadKey(Payload(storeFile.bytes, Frames[i]))

KeyInStore(k) == \E i \in 1..Len(Frames) : FrameKey(i) = k

Earliest(k) ==
    CHOOSE i \in 1..Len(Frames) :
        FrameKey(i) = k /\ \A j \in 1..(i - 1) : FrameKey(j) # k

\* the lookup found the earliest frame with its key and returned its record
ReturnedEarliest ==
    /\ last.kind = "Record"
    /\ last.offset = Frames[Earliest(last.key)].at
    /\ last.record = DecodeRecord(Payload(storeFile.bytes, Frames[Earliest(last.key)])).record

LookupOnFreshIndex == FreshIndex /\ last.op = "searchZipCode"

NotFoundOutcome == last.kind = "NotFound" /\ last.offset = -1 /\ last.reads = 0

(***************************************************************************)
(* C3 as stated: on a store and its fresh index, the lookup of a key that  *)
(* is the key of no frame ends in NotFound: searchPrimaryKey returns -1    *)
(* and no positioned read is made.                                         *)
(***************************************************************************)
C3_AnyStore ==
    (LookupOnFreshIndex /\ ~KeyInStore(last.key)) => NotFoundOutcome

(***************************************************************************)
(* C3 amended: the same, for stores in which every key is non-empty and    *)
(* free of white space.                                                    *)
(***************************************************************************)
C3_AbsentKeyNotFound ==
    (LookupOnFreshIndex /\ PlainKeys(hist.written) /\ ~KeyInStore(last.key))
        => NotFoundOutcome

C3_Witness ==
    /\ LookupOnFreshIndex
    /\ PlainKeys(hist.written)
    /\ Len(Frames) >= 2
    /\ ~KeyInStore(last.key)
    /\ NotFoundOutcome

\* the index was built from the store file as it is, and the store file is
\* whole: it holds as many frames as its header declares
IndexOfWholeStore ==
    /\ hist.storeBy = "external"
    /\ indexFile.exists
    /\ hist.indexBuilt
    /\ hist.indexed = storeFile.bytes

(***************************************************************************)
(* C4: the index built from a store has exactly one line per frame, line i *)
(* for frame i, so its line count is the declared record count, whether or *)
(* not the payloads decode as records.                                     *)
(***************************************************************************)
C4_IndexCompleteness ==
    IndexOfWholeStore =>
        /\ Len(IndexLines) = DeclaredCount(storeFile.bytes)
        /\ Len(IndexLines) = Len(Frames)
        /\ \A i \in 1..Len(IndexLines) :
             /\ IsNumeral(LineOffsetText(IndexLines[i]))
             /\ LineOffset(IndexLines[i]) = Frames[i].at
             /\ LineKey(IndexLines[i]) = FrameKey(i)

C4_Witness ==
    /\ IndexOfWholeStore
    /\ last.op = "createPrimaryKeyIndex"
    /\ Len(Frames) >= 3
    /\ \E i \in 1..Len(Frames) : Malformed(Payload(storeFile.bytes, Frames[i]))
    /\ \E i \in 1..Len(Frames) : ~Malformed(Payload(storeFile.bytes, Frames[i]))

\* the records the last load appended to the buffer
LoadedBack == SubSeq(records, last.before + 1, Len(records))

SameRecord(a, b) ==
    /\ a.zipCode = b.zipCode
    /\ a.placeName = b.placeName
    /\ a.state = b.state
    /\ a.county = b.county
    /\ DoubleEq(a.latitude, b.latitude)
    /\ DoubleEq(a.longitude, b.longitude)

LoadedWrittenStore ==
    /\ last.op = "loadFromLengthIndicatedFile"
    /\ storeFile.exists
    /\ hist.storeBy = "writer"

(***************************************************************************)
(* C5 as stated: the records read back from a store equal, in all six      *)
(* fields, the records the store was written from (decode after encode is  *)
(* the identity on records with well-formed numeric fields).               *)
(***************************************************************************)
C5_RoundTrip ==
    LoadedWrittenStore =>
        /\ Len(LoadedBack) = Len(hist.written)
        /\ \A i \in 1..Len(hist.written) : SameRecord(LoadedBack[i], hist.written[i])

(***************************************************************************)
(* C6: reading back a store written from N records consumes exactly N      *)
(* frames: N length prefixes of four bytes, each followed by exactly the   *)
(* bytes it declares, one frame after the other up to the end of the file. *)
(***************************************************************************)
C6_FrameIntegrity ==
    LoadedWrittenStore =>
        LET N == Len(hist.written)
            log == last.log
        IN  /\ Len(log) = N
            /\ \A i \in 1..N :
                 /\ log[i].lenBytes = 4
                 /\ log[i].recordLength = Len(recordString(hist.written[i]))
                 /\ log[i].dataBytes = log[i].recordLength
                 /\ log[i].at = IF i = 1 THEN Len(WriteHeader(N))
                                ELSE log[i - 1].at + 4 + log[i - 1].dataBytes
            /\ N > 0 => log[N].at + 4 + log[N].dataBytes = Len(storeFile.bytes)

C6_Witness ==
    /\ LoadedWrittenStore
    /\ Len(hist.written) >= 2
    /\ Len(last.log) >= 2
    /\ last.log[1].recordLength # last.log[2].recordLength

(***************************************************************************)
(* C7 as stated: a lookup whose index file cannot be opened does not end   *)
(* in the NotFound outcome.                                                *)
(***************************************************************************)
C7_UnopenableIndexIsError ==
    (last.op = "searchZipCode" /\ ~indexFile.exists) => last.kind # "NotFound"

\* a payload in the scope of the bulk reader's skip: it decodes, or its
\* latitude or longitude text is empty or no number
DecodesOrMalformed(p) == Malformed(p) \/ DecodeRecord(p).kind = "ok"

\* the records of the frames i.. of the store file that are not malformed
RECURSIVE WellFormedRecords(_)
WellFormedRecords(i) ==
    IF i > Len(Frames) THEN <<>>
    ELSE (IF Malformed(Payload(storeFile.bytes, Frames[i])) THEN <<>>
          ELSE <<DecodeRecord(Payload(storeFile.bytes, Frames[i])).record>>)
           \o WellFormedRecords(i + 1)

LoadedWholeStore ==
    /\ last.op = "loadFromLengthIndicatedFile"
    /\ hist.storeBy = "external"
    /\ \A i \in 1..Len(Frames) : DecodesOrMalformed(Payload(storeFile.bytes, Frames[i]))

Undecodable(p) == Malformed(p) \/ DecodeRecord(p).kind = "out_of_range"

\* the last lookup read the whole frame i of the store file
LookupReadFrame(i) ==
    /\ last.op = "searchZipCode"
    /\ last.reads = 1
    /\ storeFile.exists
    /\ i \in 1..Len(Frames)
    /\ Frames[i].at = last.offset

(***************************************************************************)
(* C9: a lookup whose matched frame holds a payload that does not decode   *)
(* as a valid record ends in the exception stod throws; no record is       *)
(* returned, neither defaulted nor partly filled.                          *)
(***************************************************************************)
C9_DecodeErrorPropagates ==
    \A i \in 1..Len(Frames) :
        (LookupReadFrame(i) /\ Undecodable(Payload(storeFile.bytes, Frames[i])))
            => /\ last.kind \in {"invalid_argument", "out_of_range"}
               /\ ~last.ret
               /\ last.record = NoRecord

C9_Witness ==
    \E i \in 1..Len(Frames) :
        /\ LookupReadFrame(i)
        /\ Malformed(Payload(storeFile.bytes, Frames[i]))
        /\ HasNumber(FieldOf(Payload(storeFile.bytes, Frames[i]), 5))
        /\ last.kind = "invalid_argument"

(***************************************************************************)
(* C10 as stated: the bulk reader reports a store whose declared record    *)
(* count exceeds the frames in the file; it does not return success.       *)
(***************************************************************************)
C10_TruncatedStoreReported ==
    (last.op = "loadFromLengthIndicatedFile" /\ hist.storeBy = "truncated")
        => ~last.ret

\* the store file is what the last successful run of the writer left
WrittenStore == storeFile.exists /\ hist.storeBy = "writer"

\* the header length the header stores: the four bytes after the version
StoredHeaderSize(bytes) == LE32At(bytes, FindChar(bytes, 1, NUL) + 2)

\* offset of the first byte after the last whole frame
FramesEnd(bytes) ==
    IF StoreFrames(bytes) = <<>> THEN FirstFrameOffset(bytes)
    ELSE StoreFrames(bytes)[Len(StoreFrames(bytes))].at + 4
           + StoreFrames(bytes)[Len(StoreFrames(bytes))].len

(***************************************************************************)
(* C11: in every store file the writer wrote, the record count of the      *)
(* header is the number of length-prefixed frames that follow the header,  *)
(* and these frames are all the file holds after the header.               *)
(***************************************************************************)
C11_CountMatchesFrames ==
    WrittenStore =>
        /\ DeclaredCount(storeFile.bytes) = Len(Frames)
        /\ FramesEnd(storeFile.bytes) = Len(storeFile.bytes)

C11_Witness ==
    /\ WrittenStore
    /\ last.op = "convertToLengthIndicatedFile"
    /\ last.ret
    /\ Len(Frames) >= 2
    /\ Frames[1].len # Frames[2].len

(***************************************************************************)
(* C12: the header length the writer stores is the number of bytes written *)
(* before the first frame (tag, terminator, 2 + 4 + 4), so it is the       *)
(* offset of the first frame and the offset in the first line of the index *)
(* of a non-empty store.                                                   *)
(***************************************************************************)
C12_HeaderLengthIsPreamble ==
    /\ WrittenStore =>
         /\ StoredHeaderSize(storeFile.bytes) = FirstFrameOffset(storeFile.bytes)
         /\ StoredHeaderSize(storeFile.bytes) = Len(fileType) + 1 + 2 + 4 + 4
         /\ Len(storeFile.bytes) >= StoredHeaderSize(storeFile.bytes)
         /\ Len(hist.written) > 0 => Frames[1].at = StoredHeaderSize(storeFile.bytes)
    /\ (FreshIndex /\ Len(hist.written) > 0) =>
         /\ IndexLines # <<>>
         /\ IsNumeral(LineOffsetText(IndexLines[1]))
         /\ LineOffset(IndexLines[1]) = StoredHeaderSize(storeFile.bytes)

C12_Witness ==
    /\ FreshIndex
    /\ last.op = "createPrimaryKeyIndex"
    /\ Len(hist.written) > 0
    /\ LineOffset(IndexLines[1]) = StoredHeaderSize(storeFile.bytes)

\* the index file is the text the builder writes from the store file as it
\* is now
IndexDescribesStore ==
    \E garbage \in Garbage :
        indexFile.bytes = createPrimaryKeyIndex(storeFile.bytes, garbage)

(***************************************************************************)
(* C13 as stated: between the runs of the program, once a run has rebuilt  *)
(* the store, an index file that exists is the index of the current store  *)
(* file, whole, and not one left over from a previous store.               *)
(***************************************************************************)
C13_IndexDescribesCurrentStore ==
    (storeFile.exists /\ hist.storeBy = "writer" /\ indexFile.exists)
        => (hist.indexed = storeFile.bytes /\ IndexDescribesStore)

(***************************************************************************)
(* C14: the writer emits the frames in the order of the container: frame i *)
(* of the store holds the record string of record i, line i of the index   *)
(* built from it carries the key of record i, and the offsets of the lines *)
(* increase strictly, each by 4 plus the length of the frame before.       *)
(***************************************************************************)
C14_InputOrder ==
    /\ WrittenStore =>
         /\ Len(Frames) = Len(hist.written)
         /\ \A i \in 1..Len(Frames) :
              Payload(storeFile.bytes, Frames[i]) = recordString(hist.written[i])
    /\ FreshIndex =>
         /\ Len(IndexLines) = Len(hist.written)
         /\ \A i \in 1..Len(IndexLines) :
              /\ LineKey(IndexLines[i]) = hist.written[i].zipCode
              /\ IsNumeral(LineOffsetText(IndexLines[i]))
              /\ LineOffset(IndexLines[i]) = Frames[i].at
         /\ \A i \in 1..(Len(IndexLines) - 1) :
              /\ LineOffset(IndexLines[i + 1]) > LineOffset(IndexLines[i])
              /\ LineOffset(IndexLines[i + 1])
                   = LineOffset(IndexLines[i]) + 4 + Len(recordString(hist.written[i]))

C14_Witness ==
    /\ FreshIndex
    /\ last.op = "createPrimaryKeyIndex"
    /\ Len(hist.written) >= 2
    /\ hist.written[1].zipCode # hist.written[2].zipCode
    /\ Len(recordString(hist.written[1])) # Len(recordString(hist.written[2]))
    /\ LineKey(IndexLines[2]) = hist.written[2].zipCode

\* the (key, offset) pairs the loop  while (indexFile >> currentZipCode >>
\* fileOffset)  of searchPrimaryKey obtains from an index text when no key
\* matches: the pairs up to the first extraction that fails
RECURSIVE IndexPairs(_, _)
IndexPairs(text, pos) ==
    LET Pair(t, o) ==
            IF ~t.ok \/ ~o.ok THEN <<>>
            ELSE <<[key |-> t.tok, offset |-> o.val]>> \o IndexPairs(text, o.pos)
        Key(t) == Pair(t, ReadInt(text, t.pos))
    IN  Key(ReadToken(text, pos))

\* the (key, offset) pairs the builder wrote: one per frame of the store
BuiltPairs == [i \in 1..Len(Frames) |-> [key |-> FrameKey(i), offset |-> Frames[i].at]]

(***************************************************************************)
(* C15: on a store the writer wrote and its fresh index, reading the index *)
(* text as white-space separated (key, offset) token pairs yields exactly  *)
(* the pairs the builder wrote, in order, when every key is non-empty and  *)
(* free of white space; and with a key that is empty or holds white space  *)
(* in the store the pairs read are not the pairs written.                  *)
(***************************************************************************)
C15_TokenPairsAreBuiltPairs ==
    FreshIndex =>
        /\ Len(Frames) = Len(hist.written)
        /\ \A i \in 1..Len(Frames) : FrameKey(i) = hist.written[i].zipCode
        /\ PlainKeys(hist.written) <=> IndexPairs(indexFile.bytes, 1) = BuiltPairs

C15_Witness ==
    /\ FreshIndex
    /\ last.op = "createPrimaryKeyIndex"
    /\ PlainKeys(hist.written)
    /\ Len(hist.written) >= 2
    /\ IndexPairs(indexFile.bytes, 1) = BuiltPairs
    /\ BuiltPairs[1].offset # BuiltPairs[2].offset

\* the records the frames of the store file decode to, in store order
DecodedFrames ==
    [i \in 1..Len(Frames) |-> DecodeRecord(Payload(storeFile.bytes, Frames[i])).record]

\* what a step leaves of the container: at least what it held, in place
Grows == Len(records') >= Len(records) /\ SubSeq(records', 1, Len(records)) = records

(***************************************************************************)
(* C16: no step shrinks or rewrites the container.  Only loadFromCSV and   *)
(* loadFromLengthIndicatedFile change it, by appending; loading a store    *)
(* leaves the old records followed by the records of the store's frames;   *)
(* and the writer stores the size of the whole container as record count.  *)
(***************************************************************************)
C16_ContainerOnlyGrows ==
    [][ /\ Grows
        /\ last'.op \notin {"loadFromCSV", "loadFromLengthIndicatedFile"}
             => records' = records
        /\ (last'.op = "loadFromLengthIndicatedFile" /\ last'.ret)
             => records' = records \o DecodedFrames
        /\ (last'.op = "convertToLengthIndicatedFile" /\ last'.ret)
             => /\ DeclaredCount(storeFile'.bytes) = Len(records)
                /\ Len(StoreFrames(storeFile'.bytes)) = Len(records) ]_vars

C16_Witness ==
    /\ last.op = "convertToLengthIndicatedFile"
    /\ last.ret
    /\ Len(records) > MaxRecords
    /\ DeclaredCount(storeFile.bytes) = Len(records)

====
